---- MODULE Spec2Model ----
(***************************************************************************)
(* Model of sendgrid/resource_template.go: the Create, Read, Update and    *)
(* Delete callbacks of the sendgrid_template resource, the remote calls    *)
(* they issue and the resource data (id, name, versions) they leave to the *)
(* host.                                                                   *)
(*                                                                         *)
(* The remote API and the transport (doRequest) are the environment: each  *)
(* call gets one answer, chosen among the answers the remote can give in   *)
(* its current state.  A step of a callback is one action; a callback runs *)
(* from a Host... action to the action that sets result.                   *)
(***************************************************************************)
EXTENDS Integers, Sequences, FiniteSets, TLC

VARIABLES
    pc,               \* position inside the running callback; "returned" when it
                      \* has returned, "idle" when the host has taken the result
    op,               \* the callback that runs or ran last
    result,           \* what the last callback returned to the host
    d,                \* *schema.ResourceData: id, name, versions
    cfg,              \* name and versions of the configuration the host applies
    st,               \* name and versions of the state the host persisted last
    remote,           \* the remote template the resource was created as
    nextId,           \* number of the template id the remote hands out next
    calls,            \* writing calls issued by the running callback, in order
    k,                \* index of the next item of the versions loops
    targetOccurence,  \* WaitForState: target observations counted so far
    notfoundTick,     \* WaitForState: refreshes that returned no result in a row
    consec,           \* length of the current run of consecutive "done" observations
    pollOutcome,      \* how the poll of the last Create ended
    lastResp,         \* the answer to the last remote call of the callback
    diff,             \* the keys whose configured value differs from the state
    createdId,        \* id in the answer of the last create-template call
    destroyed,        \* the host removed the resource after Delete
    parsed            \* an identity string and what parseTemplate returned for it

vars == <<pc, op, result, d, cfg, st, remote, nextId, calls, k, targetOccurence,
          notfoundTick, consec, pollOutcome, lastResp, diff, createdId,
          destroyed, parsed>>

-----------------------------------------------------------------------------
(* Bounds of the model *)

MaxVersions == 2      \* longest desired versions list the host asks for

(* Program constants *)

StatusOK == 200
StatusCreated == 201
StatusNoContent == 204
StatusNotFound == 404
ContinuousTargetOccurence == 3
\* StateChangeConf.NotFoundChecks is left unset by the code: WaitForState then
\* uses its default
NotFoundChecks == 20

statusWaiting == "waiting"
statusDone == "done"

-----------------------------------------------------------------------------
(* Values *)

Names == {"n1", "n2"}

\* items of the "versions" list of the schema (lines 55-89)
VersionA == [name |-> "va", id |-> "", subject |-> "sa",
             html_content |-> "<p>a</p>", plain_content |-> "a", active |-> 1]
VersionB == [name |-> "vb", id |-> "v1", subject |-> "sb",
             html_content |-> "", plain_content |-> "", active |-> 0]
VersionSpecs == {VersionA, VersionB}

VersionLists == UNION {[1..n -> VersionSpecs] : n \in 0..MaxVersions}

\* the ids the remote hands out: a new template never gets the id of the one
\* before it
TemplateIds == <<"t1", "t2">>
VersionIds == <<"v1", "v2", "v3", "v4", "v5", "v6", "v7", "v8">>

AllTemplateIds == {TemplateIds[i] : i \in 1..Len(TemplateIds)}

Absent == [exists |-> FALSE, id |-> "", name |-> "", versions |-> <<>>]

\* errors: nil, or an error of a Go type with its message and the resource id
\* its message names
NoError == [type |-> "nil", msg |-> "", id |-> ""]
NewError(type, msg) == [type |-> type, msg |-> msg, id |-> ""]

\* no identity string was given to parseTemplate
NotParsed == [called |-> FALSE, id |-> <<>>, ret |-> <<>>]

NoResult == [kind |-> "none", err |-> NoError]
Returned(err) == [kind |-> IF err = NoError THEN "ok" ELSE "err", err |-> err]
Panicked == [kind |-> "panic", err |-> NoError]

-----------------------------------------------------------------------------
(* The remote API and the transport.  The code of doRequest is not part of  *)
(* resource_template.go; it is modelled by the answers the callbacks can    *)
(* tell apart: a status with a body that parses or not, a transport error,  *)
(* a rate-limit signal.                                                     *)

Status(code, bodyOk) == [kind |-> "status", code |-> code, bodyOk |-> bodyOk]
TransportFailure == [kind |-> "transport", code |-> 0, bodyOk |-> FALSE]
RateLimited == [kind |-> "ratelimit", code |-> 0, bodyOk |-> FALSE]
Failures == {TransportFailure, RateLimited, Status(500, FALSE)}
NoResponse == [kind |-> "none", code |-> 0, bodyOk |-> FALSE]
\* no answer: the create timeout elapsed
TimedOut == [kind |-> "timeout", code |-> 0, bodyOk |-> FALSE]

Path(id, sub) == [id |-> id, sub |-> sub]
Request(method, path, body) == [method |-> method, path |-> path, body |-> body]

Exists(id) == remote.exists /\ remote.id = id

\* the answers the remote can give to a request in its current state
RemoteAnswers(req) ==
    LET id == req.path.id
        made == {Status(StatusCreated, TRUE), Status(StatusCreated, FALSE)}
        gone == {Status(StatusNotFound, FALSE)}
    IN  Failures \cup
        (CASE req.method = "POST" /\ id = "" -> made
           [] req.method = "GET" ->
                gone \cup (IF Exists(id)
                           THEN {Status(StatusOK, TRUE), Status(StatusOK, FALSE)}
                           ELSE {})
           [] req.method \in {"POST", "PATCH"} /\ req.path.sub = "versions" ->
                IF Exists(id) THEN made ELSE gone
           [] req.method = "PATCH" /\ req.path.sub = "" ->
                IF Exists(id)
                THEN {Status(StatusOK, TRUE), Status(StatusCreated, TRUE)}
                ELSE gone
           [] req.method = "DELETE" ->
                IF Exists(id)
                THEN {Status(StatusNoContent, TRUE), Status(StatusOK, TRUE)}
                ELSE gone
           [] OTHER -> {})

\* the remote carried the request out
Took(resp) ==
    resp.kind = "status"
    /\ resp.code \in {StatusOK, StatusCreated, StatusNoContent}

NewVersion(vs, p) ==
    [Id |-> VersionIds[Len(vs) + 1], Name |-> p.name, Subject |-> p.subject,
     HtmlContent |-> p.html_content, PlainContent |-> p.plain_content,
     Active |-> p.active, TemplateId |-> p.template_id]

\* PATCH of the versions collection: the version of that name is replaced and
\* keeps its id, a version of a new name is added
Upsert(vs, p) ==
    IF \E i \in 1..Len(vs) : vs[i].Name = p.name
    THEN LET i == CHOOSE j \in 1..Len(vs) :
                      /\ vs[j].Name = p.name
                      /\ \A h \in 1..(j - 1) : vs[h].Name # p.name
         IN  [vs EXCEPT ![i] = [NewVersion(vs, p) EXCEPT !.Id = vs[i].Id]]
    ELSE Append(vs, NewVersion(vs, p))

\* the remote after it answered resp to req
RemoteApply(req, resp) ==
    LET id == req.path.id IN
    IF ~Took(resp) THEN remote
    ELSE CASE req.method = "POST" /\ id = "" ->
                [exists |-> TRUE, id |-> TemplateIds[nextId],
                 name |-> req.body.name, versions |-> <<>>]
           [] req.method = "POST" /\ req.path.sub = "versions" ->
                [remote EXCEPT !.versions = Append(@, NewVersion(@, req.body))]
           [] req.method = "PATCH" /\ req.path.sub = "versions" ->
                [remote EXCEPT !.versions = Upsert(@, req.body)]
           [] req.method = "PATCH" /\ req.path.sub = "" ->
                [remote EXCEPT !.name = req.body.name]
           [] req.method = "DELETE" -> Absent
           [] OTHER -> remote

\* doRequest(request, withStatus(...)...): the response and the error.  On an
\* error the response is nil or not, as nilRes says.
DoRequest(resp, expected, nilRes) ==
    IF resp.kind = "transport"
    THEN [res |-> [isNil |-> nilRes, StatusCode |-> 0],
          err |-> NewError("transportError", "request failed")]
    ELSE IF resp.kind = "ratelimit"
    THEN [res |-> [isNil |-> nilRes, StatusCode |-> 0],
          err |-> NewError("ratelimitError", "rate limit hit")]
    ELSE IF resp.code \in expected
    THEN [res |-> [isNil |-> FALSE, StatusCode |-> resp.code], err |-> NoError]
    ELSE [res |-> [isNil |-> nilRes, StatusCode |-> resp.code],
          err |-> NewError("statusError", "unexpected status")]

\* errors.Wrap: nil for a nil error, otherwise a new error value of the
\* wrapper's type that carries the message
Wrap(err, msg) ==
    IF err = NoError THEN NoError ELSE NewError("withStack", msg)

\* json.Unmarshal of a response body
Unmarshal(resp) ==
    IF resp.bodyOk THEN NoError ELSE NewError("SyntaxError", "invalid json")

-----------------------------------------------------------------------------
(* The functions of resource_template.go *)

NilTemplate == [isNil |-> TRUE, TemplateID |-> "", Name |-> "", Versions |-> <<>>]

EmptyState == [name |-> "", versions |-> <<>>]

\* uint(v["active"].(int)): the value itself for the values the lists of the
\* model hold, none of which is negative (a negative one wraps to 2^64 + a,
\* which is beyond the integers TLC computes with)
Uint(a) == a

VersionPayload(templateId, v) ==
    [name |-> v.name, subject |-> v.subject, html_content |-> v.html_content,
     plain_content |-> v.plain_content, active |-> Uint(v.active),
     template_id |-> templateId]

CreateTemplateRequest(name) ==
    Request("POST", Path("", ""), [name |-> name])

SetTemplateVersionsRequest(templateId, v) ==
    Request("POST", Path(templateId, "versions"), VersionPayload(templateId, v))

\* variant: Update removes the version on the remote side
UpdateTemplateVersionsRequest_Delete(templateId, v) ==
    Request("DELETE", Path(templateId, "versions"), VersionPayload(templateId, v))

\* variant: the version call of Update is the one of Create
UpdateTemplateVersionsRequest_Post(templateId, v) ==
    Request("POST", Path(templateId, "versions"), VersionPayload(templateId, v))

UpdateTemplateVersionsRequest(templateId, v) ==
    Request("PATCH", Path(templateId, "versions"), VersionPayload(templateId, v))

UpdateTemplateNameRequest(id, name) ==
    Request("PATCH", Path(id, ""), [name |-> name])

GetTemplateRequest(id) == Request("GET", Path(id, ""), [name |-> ""])

DeleteTemplateRequest(id) == Request("DELETE", Path(id, ""), [name |-> ""])

\* variant: the error of a version call is dropped
VersionCallError_Swallowed(resp, msg) == NoError

\* the error of setTemplateVersions and of updateTemplateVersions
VersionCallError(resp, msg) ==
    LET r == DoRequest(resp, {StatusCreated}, TRUE) IN
    IF r.err # NoError THEN Wrap(r.err, msg)
    ELSE Wrap(Unmarshal(resp), "failed to unmarshal created template ID")

SetTemplateVersions(resp) ==
    VersionCallError(resp, "failed to create template versions")

UpdateTemplateVersions(resp) ==
    VersionCallError(resp, "failed to update template versions")

\* getTemplate: the template (nil when absent) and the error
GetTemplate(id, resp) ==
    LET r == DoRequest(resp, {StatusOK, StatusNotFound}, TRUE) IN
    IF r.err # NoError
    THEN [t |-> NilTemplate, err |-> Wrap(r.err, "failed to query API template")]
    ELSE IF r.res.StatusCode = StatusNotFound
    THEN [t |-> NilTemplate, err |-> NoError]
    ELSE IF Unmarshal(resp) # NoError
    THEN [t |-> NilTemplate,
          err |-> Wrap(Unmarshal(resp), "failed to unmarshal template query response")]
    ELSE [t |-> [isNil |-> FALSE, TemplateID |-> id, Name |-> remote.name,
                 Versions |-> remote.versions],
          err |-> NoError]

\* variant: name and subject of a version are taken from each other
FlattenVersions_Swapped(versionsItems) ==
    [i \in 1..Len(versionsItems) |->
        [active |-> versionsItems[i].Active,
         html_content |-> versionsItems[i].HtmlContent,
         id |-> versionsItems[i].Id,
         plain_content |-> versionsItems[i].PlainContent,
         name |-> versionsItems[i].Subject,
         subject |-> versionsItems[i].Name]]

FlattenVersions(versionsItems) ==
    [i \in 1..Len(versionsItems) |->
        [active |-> versionsItems[i].Active,
         html_content |-> versionsItems[i].HtmlContent,
         id |-> versionsItems[i].Id,
         plain_content |-> versionsItems[i].PlainContent,
         name |-> versionsItems[i].Name,
         subject |-> versionsItems[i].Subject]]

\* variant: the id is cleared also when the read fails
ResourceTemplateRead_ClearOnError(dd, gt) ==
    IF gt.err # NoError \/ gt.t.isNil
    THEN [d |-> [dd EXCEPT !.id = ""], err |-> gt.err]
    ELSE [d |-> [dd EXCEPT !.name = gt.t.Name,
                           !.versions = FlattenVersions(gt.t.Versions)],
          err |-> NoError]

\* variant: an absent template is reported as an error and the id is kept
ResourceTemplateRead_AbsentIsError(dd, gt) ==
    IF gt.err # NoError THEN [d |-> dd, err |-> gt.err]
    ELSE IF gt.t.isNil
    THEN [d |-> dd, err |-> NewError("errorString", "template not found")]
    ELSE [d |-> [dd EXCEPT !.name = gt.t.Name,
                           !.versions = FlattenVersions(gt.t.Versions)],
          err |-> NoError]

\* resourceTemplateRead on the answer of getTemplate: the resource data and
\* the error
ResourceTemplateRead(dd, gt) ==
    IF gt.err # NoError THEN [d |-> dd, err |-> gt.err]
    ELSE IF gt.t.isNil THEN [d |-> [dd EXCEPT !.id = ""], err |-> NoError]
    ELSE [d |-> [dd EXCEPT !.name = gt.t.Name,
                           !.versions = FlattenVersions(gt.t.Versions)],
          err |-> NoError]

\* variant: the id is not set before the versions are processed
SetCreatedId_Late(dd, templateId) == dd

\* d.SetId(t.TemplateID) of resourceTemplateCreate
SetCreatedId(dd, templateId) == [dd EXCEPT !.id = templateId]

\* variant: the error of the DELETE call is returned
ResourceTemplateDeleteResult_Propagate(r) ==
    IF r.err # NoError THEN Wrap(r.err, "failed to delete template") ELSE NoError

\* what resourceTemplateDelete returns for the outcome of doRequest
ResourceTemplateDeleteResult(r) ==
    IF r.err # NoError \/ r.res.StatusCode # StatusOK
    THEN NoError
    ELSE Wrap(r.err, "failed to delete template")

\* what updateTemplateName does with the outcome of doRequest: res.StatusCode
\* is read when err is not nil, also of a nil response
UpdateTemplateNameResult(r) ==
    IF r.err = NoError THEN Returned(NoError)
    ELSE IF r.res.isNil THEN Panicked
    ELSE Returned(NoError)

\* variant: every key counts as changed
HasChange_Always(key) == key \in {"name", "versions"}

\* d.HasChange(key)
HasChange(key) == key \in diff

\* the Refresh function of createStateConf
Refresh(gt) ==
    IF gt.err.type = "ratelimitError"
    THEN [resNil |-> TRUE, state |-> statusWaiting, err |-> NoError]
    ELSE IF gt.err # NoError
    THEN [resNil |-> TRUE, state |-> "", err |-> gt.err]
    ELSE IF gt.t.isNil
    THEN [resNil |-> TRUE, state |-> statusWaiting, err |-> NoError]
    ELSE [resNil |-> FALSE, state |-> statusDone, err |-> NoError]

\* one round of the refresh loop of createStateConf.WaitForState() with
\* Pending {statusWaiting}, Target {statusDone}, ContinuousTargetOccurence 3
\* and NotFoundChecks at its default: an error of Refresh ends the wait; a
\* refresh without a result counts towards NotFoundChecks and leaves the
\* count of target observations alone; a result in the target state counts,
\* one in the pending state sets the count back to 0
WaitForStateRound(rf, tOcc, nft) ==
    IF rf.err # NoError
    THEN [status |-> "error", err |-> rf.err, tOcc |-> tOcc, nft |-> nft]
    ELSE IF rf.resNil
    THEN IF nft + 1 > NotFoundChecks
         THEN [status |-> "error",
               err |-> NewError("NotFoundError", "couldn't find resource"),
               tOcc |-> tOcc, nft |-> nft + 1]
         ELSE [status |-> "continue", err |-> NoError,
               tOcc |-> tOcc, nft |-> nft + 1]
    ELSE IF rf.state = statusDone
    THEN [status |-> IF tOcc + 1 = ContinuousTargetOccurence
                     THEN "done" ELSE "continue",
          err |-> NoError, tOcc |-> tOcc + 1, nft |-> 0]
    ELSE IF rf.state = statusWaiting
    THEN [status |-> "continue", err |-> NoError, tOcc |-> 0, nft |-> 0]
    ELSE [status |-> "error",
          err |-> NewError("UnexpectedStateError", "unexpected state"),
          tOcc |-> tOcc, nft |-> 0]

\* fmt.Errorf("error waiting for template (%s) to be created: %s", d.Id(), err)
WaitError(id) ==
    [type |-> "errorString",
     msg |-> "error waiting for template to be created", id |-> id]

-----------------------------------------------------------------------------
(* The state machine *)

ResourceInit ==
    /\ pc = "idle"
    /\ op = "none"
    /\ result = NoResult
    /\ d = [id |-> "", name |-> "", versions |-> <<>>]
    /\ cfg = EmptyState
    /\ st = EmptyState
    /\ remote = Absent
    /\ nextId = 1
    /\ calls = <<>>
    /\ k = 1
    /\ targetOccurence = 0
    /\ notfoundTick = 0
    /\ consec = 0
    /\ pollOutcome = "none"
    /\ lastResp = NoResponse
    /\ diff = {}
    /\ createdId = ""
    /\ destroyed = FALSE

Init ==
    /\ ResourceInit
    /\ parsed = NotParsed

\* the callback returns res; the host persists name and versions of saved, or
\* drops the resource when the id is empty
Return(res, dd, saved) ==
    /\ pc' = "returned"
    /\ result' = res
    /\ st' = IF dd.id = "" THEN EmptyState ELSE saved
    /\ d' = IF dd.id = "" THEN [id |-> "", name |-> "", versions |-> <<>>]
            ELSE [id |-> dd.id, name |-> saved.name, versions |-> saved.versions]
    /\ k' = 1
    /\ targetOccurence' = 0
    /\ notfoundTick' = 0

View(dd) == [name |-> dd.name, versions |-> dd.versions]

\* the host starts a callback on the resource with the configuration c
Start(o, first, c) ==
    /\ pc = "idle"
    /\ ~destroyed
    /\ op' = o
    /\ pc' = first
    /\ result' = NoResult
    /\ cfg' = c
    /\ d' = [id |-> d.id, name |-> c.name, versions |-> c.versions]
    /\ calls' = <<>>
    /\ k' = 1
    /\ targetOccurence' = 0
    /\ notfoundTick' = 0
    /\ consec' = 0
    /\ pollOutcome' = "none"
    /\ lastResp' = NoResponse
    /\ diff' = {key \in {"name", "versions"} : st[key] # c[key]}
    /\ createdId' = ""
    /\ UNCHANGED <<st, remote, nextId, destroyed, parsed>>

\* a remote call: the request is logged, the remote answers and changes
Call(req, resp) ==
    /\ resp \in RemoteAnswers(req)
    /\ calls' = IF req.method = "GET" THEN calls ELSE Append(calls, req)
    /\ remote' = RemoteApply(req, resp)
    /\ lastResp' = resp
    /\ nextId' = IF req.method = "POST" /\ req.path.id = "" /\ Took(resp)
                 THEN (nextId % Len(TemplateIds)) + 1 ELSE nextId
    /\ UNCHANGED parsed

\* the host has taken the result of the callback
HostDone ==
    /\ pc = "returned"
    /\ pc' = "idle"
    /\ op' = "none"
    /\ result' = NoResult
    /\ cfg' = EmptyState
    /\ calls' = <<>>
    /\ consec' = 0
    /\ pollOutcome' = "none"
    /\ lastResp' = NoResponse
    /\ diff' = {}
    /\ createdId' = ""
    /\ UNCHANGED <<d, st, remote, nextId, k, targetOccurence, notfoundTick,
                   destroyed,
                   parsed>>

(* resourceTemplateCreate *)

HostCreate(name, versions) ==
    /\ d.id = ""
    /\ Start("Create", "c_post", [name |-> name, versions |-> versions])

\* lines 96-123: POST /templates, then d.SetId
CreateTemplate(resp) ==
    /\ pc = "c_post"
    /\ Call(CreateTemplateRequest(d.name), resp)
    /\ LET r == DoRequest(resp, {StatusCreated}, TRUE)
           e == IF r.err # NoError THEN Wrap(r.err, "failed to create template")
                ELSE Wrap(Unmarshal(resp), "failed to unmarshal created template ID")
       IN  IF e # NoError
           THEN /\ Return(Returned(e), d, st)
                /\ UNCHANGED createdId
           ELSE /\ d' = SetCreatedId(d, TemplateIds[nextId])
                /\ createdId' = TemplateIds[nextId]
                /\ pc' = "c_versions"
                /\ UNCHANGED <<result, st, k, targetOccurence, notfoundTick>>
    /\ UNCHANGED <<op, cfg, consec, pollOutcome, diff, destroyed>>

\* lines 127-133: one round of the loop over the versions
CreateVersion(resp) ==
    /\ pc = "c_versions"
    /\ k <= Len(d.versions)
    /\ Call(SetTemplateVersionsRequest(d.id, d.versions[k]), resp)
    /\ LET e == SetTemplateVersions(resp) IN
       IF e # NoError
       THEN Return(Returned(e), d, st)
       ELSE /\ k' = k + 1
            /\ UNCHANGED <<pc, result, d, st, targetOccurence, notfoundTick>>
    /\ UNCHANGED <<op, cfg, consec, pollOutcome, diff, createdId, destroyed>>

\* variant: the loop over the versions stops one item early
CreateVersionsDone_Early ==
    /\ pc = "c_versions"
    /\ k >= Len(d.versions)
    /\ pc' = "c_poll"
    /\ UNCHANGED <<op, result, d, cfg, st, remote, nextId, calls, k,
                   targetOccurence, notfoundTick, consec, pollOutcome,
                   lastResp, diff, createdId, destroyed,
                   parsed>>

\* lines 135-158: the loop is over, the wait starts
CreateVersionsDone ==
    /\ pc = "c_versions"
    /\ k > Len(d.versions)
    /\ pc' = "c_poll"
    /\ UNCHANGED <<op, result, d, cfg, st, remote, nextId, calls, k,
                   targetOccurence, notfoundTick, consec, pollOutcome,
                   lastResp, diff, createdId, destroyed,
                   parsed>>

\* lines 145-163: one refresh of WaitForState
PollRefresh(resp) ==
    /\ pc = "c_poll"
    /\ Call(GetTemplateRequest(d.id), resp)
    /\ LET rf == Refresh(GetTemplate(d.id, resp))
           w == WaitForStateRound(rf, targetOccurence, notfoundTick)
       IN  /\ consec' = IF rf.err = NoError /\ rf.state = statusDone
                        THEN consec + 1 ELSE 0
           /\ CASE w.status = "continue" ->
                     /\ targetOccurence' = w.tOcc
                     /\ notfoundTick' = w.nft
                     /\ UNCHANGED <<pc, result, d, st, k, pollOutcome>>
                [] w.status = "done" ->
                     /\ pc' = "c_read"
                     /\ pollOutcome' = "success"
                     /\ targetOccurence' = w.tOcc
                     /\ notfoundTick' = w.nft
                     /\ UNCHANGED <<result, d, st, k>>
                [] OTHER ->
                     /\ pollOutcome' = "error"
                     /\ Return(Returned(WaitError(d.id)), d, View(d))
    /\ UNCHANGED <<op, cfg, diff, createdId, destroyed>>

\* lines 141, 160-163: the create timeout elapses during the wait
PollTimeout ==
    /\ pc = "c_poll"
    /\ pollOutcome' = "error"
    /\ lastResp' = TimedOut
    /\ Return(Returned(WaitError(d.id)), d, View(d))
    /\ UNCHANGED <<op, cfg, remote, nextId, calls, consec, diff, createdId,
                   destroyed,
                   parsed>>

\* resourceTemplateRead as the last step of Create and Update, and as the
\* Read callback
ReadStep(resp) ==
    /\ Call(GetTemplateRequest(d.id), resp)
    /\ LET rd == ResourceTemplateRead(d, GetTemplate(d.id, resp)) IN
       Return(Returned(rd.err), rd.d,
              IF rd.err = NoError THEN View(rd.d)
              ELSE IF op = "Read" THEN st ELSE View(d))
    /\ UNCHANGED <<op, cfg, consec, pollOutcome, diff, createdId, destroyed>>

\* line 165
CreateRead(resp) ==
    /\ pc = "c_read"
    /\ ReadStep(resp)

(* resourceTemplateRead *)

HostRead ==
    /\ d.id # ""
    /\ Start("Read", "r_get", st)

ReadGet(resp) ==
    /\ pc = "r_get"
    /\ ReadStep(resp)

(* resourceTemplateUpdate *)

HostUpdate(name, versions) ==
    /\ d.id # ""
    /\ Start("Update", "u_name", [name |-> name, versions |-> versions])

\* lines 192-198, 267-290
UpdateName(resp, nilRes) ==
    /\ pc = "u_name"
    /\ HasChange("name")
    /\ Call(UpdateTemplateNameRequest(d.id, d.name), resp)
    /\ LET u == UpdateTemplateNameResult(DoRequest(resp, {StatusCreated}, nilRes))
       IN  IF u.kind = "ok"
           THEN /\ pc' = "u_versions"
                /\ UNCHANGED <<result, d, st, k, targetOccurence, notfoundTick>>
           ELSE Return(u, d, st)
    /\ UNCHANGED <<op, cfg, consec, pollOutcome, diff, createdId, destroyed>>

UpdateNameSkip ==
    /\ pc = "u_name"
    /\ ~HasChange("name")
    /\ pc' = "u_versions"
    /\ UNCHANGED <<op, result, d, cfg, st, remote, nextId, calls, k,
                   targetOccurence, notfoundTick, consec, pollOutcome,
                   lastResp, diff, createdId, destroyed,
                   parsed>>

\* lines 200-209: one round of the loop over the versions
UpdateVersion(resp) ==
    /\ pc = "u_versions"
    /\ HasChange("versions")
    /\ k <= Len(d.versions)
    /\ Call(UpdateTemplateVersionsRequest(d.id, d.versions[k]), resp)
    /\ LET e == UpdateTemplateVersions(resp) IN
       IF e # NoError
       THEN Return(Returned(e), d,
                   IF HasChange("name") THEN [st EXCEPT !.name = d.name] ELSE st)
       ELSE /\ k' = k + 1
            /\ UNCHANGED <<pc, result, d, st, targetOccurence, notfoundTick>>
    /\ UNCHANGED <<op, cfg, consec, pollOutcome, diff, createdId, destroyed>>

\* lines 200, 211-216: no loop, or the loop is over
UpdateVersionsDone ==
    /\ pc = "u_versions"
    /\ ~HasChange("versions") \/ k > Len(d.versions)
    /\ pc' = "u_read"
    /\ UNCHANGED <<op, result, d, cfg, st, remote, nextId, calls, k,
                   targetOccurence, notfoundTick, consec, pollOutcome,
                   lastResp, diff, createdId, destroyed,
                   parsed>>

\* line 216
UpdateRead(resp) ==
    /\ pc = "u_read"
    /\ ReadStep(resp)

(* resourceTemplateDelete *)

HostDelete ==
    /\ d.id # ""
    /\ Start("Delete", "d_delete", st)

\* lines 220-229; the host removes the resource when Delete returns no error
DeleteTemplate(resp) ==
    /\ pc = "d_delete"
    /\ Call(DeleteTemplateRequest(d.id), resp)
    /\ LET e == ResourceTemplateDeleteResult(
                    DoRequest(resp, {StatusNoContent}, TRUE))
       IN  /\ Return(Returned(e), d, st)
           /\ destroyed' = (e = NoError)
    /\ UNCHANGED <<op, cfg, consec, pollOutcome, diff, createdId>>

(* the environment *)

\* the template is deleted on the remote side by someone else
ExternalDelete ==
    /\ remote.exists
    /\ remote' = Absent
    /\ UNCHANGED <<pc, op, result, d, cfg, st, nextId, calls, k,
                   targetOccurence, notfoundTick, consec, pollOutcome,
                   lastResp, diff, createdId, destroyed,
                   parsed>>

Responses ==
    Failures \cup
    {Status(c, b) : c \in {StatusOK, StatusCreated, StatusNoContent, StatusNotFound},
                    b \in BOOLEAN}

Next ==
    \/ \E n \in Names, vs \in VersionLists : HostCreate(n, vs)
    \/ \E resp \in Responses : CreateTemplate(resp)
    \/ \E resp \in Responses : CreateVersion(resp)
    \/ CreateVersionsDone
    \/ \E resp \in Responses : PollRefresh(resp)
    \/ PollTimeout
    \/ \E resp \in Responses : CreateRead(resp)
    \/ HostRead
    \/ \E resp \in Responses : ReadGet(resp)
    \/ \E n \in Names, vs \in VersionLists : HostUpdate(n, vs)
    \/ \E resp \in Responses, nilRes \in BOOLEAN : UpdateName(resp, nilRes)
    \/ UpdateNameSkip
    \/ \E resp \in Responses : UpdateVersion(resp)
    \/ UpdateVersionsDone
    \/ \E resp \in Responses : UpdateRead(resp)
    \/ HostDelete
    \/ \E resp \in Responses : DeleteTemplate(resp)
    \/ ExternalDelete
    \/ HostDone

Spec == Init /\ [][Next]_vars

\* a callback that runs goes on running: a wait that has started polls or
\* times out
WaitStep == (\E resp \in Responses : PollRefresh(resp)) \/ PollTimeout
FairSpec == Spec /\ WF_vars(WaitStep)

-----------------------------------------------------------------------------
(* parseTemplate *)

\* an identity string is a sequence of characters; MaxIdLen bounds its length
MaxIdLen == 5
Chars == {"a", "b", ":"}
Sep == ":"
SplitParts == 3

RECURSIVE StringsUpTo(_)
StringsUpTo(n) ==
    IF n = 0 THEN {<<>>}
    ELSE LET shorter == StringsUpTo(n - 1) IN
         shorter \cup {Append(t, c) : t \in {u \in shorter : Len(u) = n - 1}, c \in Chars}

IdStrings == StringsUpTo(MaxIdLen)

\* strings.Index for a separator of one character: 0 when it is not there
Index(str, sep) ==
    IF \E i \in 1..Len(str) : str[i] = sep
    THEN CHOOSE i \in 1..Len(str) : str[i] = sep /\ \A j \in 1..(i - 1) : str[j] # sep
    ELSE 0

\* strings.SplitN(str, sep, n) for n > 0: at most n parts, the last one is
\* the rest of the string, separators included
RECURSIVE SplitN(_, _, _)
SplitN(str, sep, n) ==
    IF n = 1 \/ Index(str, sep) = 0 THEN <<str>>
    ELSE <<SubSeq(str, 1, Index(str, sep) - 1)>>
         \o SplitN(SubSeq(str, Index(str, sep) + 1, Len(str)), sep, n - 1)

NoParseError == [type |-> "nil", msg |-> "", id |-> <<>>]
ParseError(id) ==
    [type |-> "errorString",
     msg |-> "unexpected format of ID, expected id:name:versions",
     id |-> id]

\* variant: the string is split at every separator
ParseTemplate_SplitAll(id) ==
    LET parts == SplitN(id, Sep, Len(id) + 1) IN
    IF Len(parts) # SplitParts \/ parts[1] = <<>> \/ parts[2] = <<>>
    THEN [realID |-> <<>>, name |-> <<>>, err |-> ParseError(id)]
    ELSE [realID |-> parts[1], name |-> parts[2], err |-> NoParseError]

ParseTemplate(id) ==
    LET parts == SplitN(id, Sep, SplitParts) IN
    IF Len(parts) # SplitParts \/ parts[1] = <<>> \/ parts[2] = <<>>
    THEN [realID |-> <<>>, name |-> <<>>, err |-> ParseError(id)]
    ELSE [realID |-> parts[1], name |-> parts[2], err |-> NoParseError]

\* parseTemplate on every identity string: the resource stays as constructed
ParseInit ==
    /\ ResourceInit
    /\ \E id \in IdStrings : parsed = [called |-> FALSE, id |-> id, ret |-> <<>>]

ParseTemplateCall ==
    /\ ~parsed.called
    /\ parsed' = [called |-> TRUE, id |-> parsed.id, ret |-> ParseTemplate(parsed.id)]
    /\ UNCHANGED <<pc, op, result, d, cfg, st, remote, nextId, calls, k,
                   targetOccurence, notfoundTick, consec, pollOutcome,
                   lastResp, diff, createdId, destroyed>>

ParseNext == ParseTemplateCall

ParseSpec == ParseInit /\ [][ParseNext]_vars

-----------------------------------------------------------------------------
(* Properties *)

IsVersionCall(c) == c.path.sub = "versions"
IsRenameCall(c) == c.method = "PATCH" /\ c.path.sub = "" /\ c.path.id # ""
VersionCalls == SelectSeq(calls, IsVersionCall)
RenameCalls == SelectSeq(calls, IsRenameCall)

\* the version-create calls of a Create with the desired list vs on template id
ExpectedCreateCalls(name, id, vs) ==
    <<CreateTemplateRequest(name)>> \o
    [i \in 1..Len(vs) |-> SetTemplateVersionsRequest(id, vs[i])]

IsPrefix(s, t) == Len(s) <= Len(t) /\ \A i \in 1..Len(s) : s[i] = t[i]

\* C1: in Create the resource id is the id returned by the create-template
\* call from before the first version-create call on: every version-create
\* call addresses that id, and when Create returns an error after a
\* version-create call was issued, the resource id is still that non-empty id.
C1_IdSetBeforeVersionCalls ==
    op = "Create" =>
        /\ pc = "c_versions" => (d.id = createdId /\ createdId # "")
        /\ (VersionCalls # <<>> /\ (pc # "returned" \/ result.kind = "err")) =>
              /\ createdId # ""
              /\ d.id = createdId
              /\ \A i \in 1..Len(VersionCalls) :
                    VersionCalls[i].path.id = createdId

\* C1 witness: Create returned the error of a failed version-create call that
\* followed a successful one, and the resource id is the created template's
C1_Witness ==
    /\ op = "Create"
    /\ pc = "returned"
    /\ result.kind = "err"
    /\ result.err.msg = "failed to create template versions"
    /\ Len(VersionCalls) = 2
    /\ d.id # ""
    /\ d.id = createdId

\* C2: a Create in which no call fails has issued the create-template call
\* and then exactly one POST /templates/{id}/versions per desired version, in
\* the order of the desired list, and the state it returns has as many
\* versions as the desired list; while Create runs, the calls issued so far
\* are a prefix of that sequence.
C2_CreateIssuesVersionCallsInOrder ==
    op = "Create" =>
        /\ createdId # "" =>
              IsPrefix(calls, ExpectedCreateCalls(cfg.name, createdId, cfg.versions))
        /\ (pc = "returned" /\ result.kind = "ok") =>
              /\ calls = ExpectedCreateCalls(cfg.name, createdId, cfg.versions)
              /\ \A i \in 1..Len(VersionCalls) : VersionCalls[i].method = "POST"
              /\ d.id # "" => Len(d.versions) = Len(cfg.versions)

\* C2 witness: a successful Create with two different desired versions
C2_Witness ==
    /\ op = "Create"
    /\ pc = "returned"
    /\ result.kind = "ok"
    /\ d.id # ""
    /\ Len(cfg.versions) = 2
    /\ cfg.versions[1] # cfg.versions[2]
    /\ Len(VersionCalls) = 2
    /\ Len(d.versions) = 2

\* C3: the wait of Create succeeds only after "done" was observed on 3
\* consecutive polls, a "waiting" poll between them starting the count again.
C3_SuccessAfterThreeConsecutiveDone ==
    pollOutcome = "success" => consec >= ContinuousTargetOccurence

\* C4: a poll read that is answered by a rate-limit signal never ends the
\* wait of Create with an error.
C4_RateLimitNeverFailsCreate ==
    ~(op = "Create" /\ pollOutcome = "error" /\ lastResp.kind = "ratelimit")

\* C5: when the wait of Create ends and "done" was not observed on 3
\* consecutive polls, Create has returned an error that names the resource id.
C5_NoThreeConsecutiveDoneIsError ==
    (op = "Create" /\ pollOutcome # "none" /\ consec < ContinuousTargetOccurence) =>
        /\ pc = "returned"
        /\ result.kind = "err"
        /\ result.err.id = d.id
        /\ d.id # ""

\* The wait of Create ends: it never polls forever.
WaitEnds == (pc = "c_poll") ~> (pc # "c_poll")

\* C6: when the Read callback has returned, a 404 answer of the GET gave no
\* error and an empty resource id, and every answer other than 200 and 404
\* (another status, a transport error, a rate-limit signal) gave an error.
C6_ReadAbsentIsNoError ==
    (op = "Read" /\ pc = "returned") =>
        /\ (lastResp.kind = "status" /\ lastResp.code = StatusNotFound) =>
              (result.kind = "ok" /\ d.id = "")
        /\ (lastResp.kind # "status"
            \/ lastResp.code \notin {StatusOK, StatusNotFound}) =>
              result.kind = "err"

\* C6 witness: Read got a 404 for a template that exists no more and returned
\* no error, and the id is empty
C6_Witness ==
    /\ op = "Read"
    /\ pc = "returned"
    /\ lastResp = Status(StatusNotFound, FALSE)
    /\ ~remote.exists
    /\ result.kind = "ok"
    /\ d.id = ""

\* C7: Delete returns no error, whatever the answer to the DELETE call.
C7_DeleteAlwaysSucceeds ==
    (op = "Delete" /\ pc = "returned") => result.kind = "ok"

\* C7 witness: the DELETE call failed in the transport, the remote template
\* still exists and Delete returned no error
C7_Witness ==
    /\ op = "Delete"
    /\ pc = "returned"
    /\ lastResp = TransportFailure
    /\ Exists(d.id)
    /\ result.kind = "ok"

\* C8: Update issues a rename call (PATCH /templates/{id}) only when the name
\* changed, and then exactly one, with the new name; it issues version calls
\* only when the versions changed.
C8_UpdateCallsOnlyForChangedFields ==
    op = "Update" =>
        /\ "name" \notin diff => RenameCalls = <<>>
        /\ ("name" \in diff /\ pc # "u_name") =>
              /\ Len(RenameCalls) = 1
              /\ RenameCalls[1].body = [name |-> cfg.name]
        /\ "versions" \notin diff => VersionCalls = <<>>

\* C8 witness: an Update in which only the name changed, with a non-empty
\* versions list, returned after one rename call and no other call
C8_Witness ==
    /\ op = "Update"
    /\ pc = "returned"
    /\ result.kind = "ok"
    /\ diff = {"name"}
    /\ cfg.versions # <<>>
    /\ Len(calls) = 1
    /\ Len(RenameCalls) = 1

\* C9 as claimed: every version call of Update is a POST, like the version
\* call of Create.
C9_UpdateVersionCallsArePost ==
    op = "Update" =>
        \A i \in 1..Len(VersionCalls) : VersionCalls[i].method = "POST"

\* C9 as amended: the version calls of Update are, in list order, one PATCH
\* to /templates/{id}/versions per version of the new list, changed or not
\* and with or without an id, each with the body the version call of Create
\* sends; when no call failed, there is one for every version of the list.
C9_UpdateVersionCallsArePatch ==
    op = "Update" =>
        /\ Len(VersionCalls) <= Len(cfg.versions)
        /\ \A i \in 1..Len(VersionCalls) :
              LET c == VersionCalls[i] IN
              /\ c.method = "PATCH"
              /\ c.path.id # ""
              /\ pc # "returned" => c.path.id = d.id
              /\ c.path = SetTemplateVersionsRequest(c.path.id, cfg.versions[i]).path
              /\ c.body = SetTemplateVersionsRequest(c.path.id, cfg.versions[i]).body
        /\ ("versions" \in diff
            /\ (pc = "u_read" \/ (pc = "returned" /\ result.kind = "ok"))) =>
              Len(VersionCalls) = Len(cfg.versions)

\* C9 witness: the versions changed, the first version of the new list is the
\* one of the state, unchanged and with an id, and both versions were sent
C9_Witness ==
    /\ op = "Update"
    /\ pc = "u_read"
    /\ "versions" \in diff
    /\ Len(cfg.versions) = 2
    /\ Len(st.versions) = 1
    /\ cfg.versions[1] = st.versions[1]
    /\ cfg.versions[1].id # ""
    /\ Len(VersionCalls) = 2

\* C10 as claimed: once the resource id is assigned, no operation changes or
\* clears it.
C10_IdNeverChangesOnceSet ==
    [][d.id # "" => d.id' = d.id]_vars

\* C10 as amended: the resource id changes in two ways only: Create sets it,
\* from empty, to the id returned by the create-template call, and the read
\* (the Read callback, or the last step of Create and Update) clears it when
\* the GET is answered 404; a non-empty id never becomes another non-empty id.
C10_IdSetByCreateClearedByRead ==
    [][d.id' # d.id =>
          \/ /\ d.id = ""
             /\ pc = "c_post"
             /\ d.id' # ""
             /\ d.id' = createdId'
          \/ /\ d.id' = ""
             /\ pc \in {"c_read", "r_get", "u_read"}
             /\ lastResp'.kind = "status"
             /\ lastResp'.code = StatusNotFound]_vars

\* C10 witness: Create returned no error and the id it had set is cleared by
\* its own last read
C10_Witness ==
    /\ op = "Create"
    /\ pc = "returned"
    /\ result.kind = "ok"
    /\ createdId # ""
    /\ d.id = ""

VersionIdsOf(vs) == {vs[i].Id : i \in 1..Len(vs)}

\* C11: Create and Update issue no DELETE call, and no step of theirs takes a
\* version away from the remote template: as long as the template exists,
\* every version id it has is still there after the step, also in an Update
\* whose new list is shorter than the old one.
C11_NoVersionIsRemoved ==
    [][(op' \in {"Create", "Update"} /\ pc # "idle") =>
          /\ \A i \in 1..Len(calls') : calls'[i].method # "DELETE"
          /\ (remote.exists /\ remote'.exists /\ remote'.id = remote.id) =>
                /\ VersionIdsOf(remote.versions) \subseteq VersionIdsOf(remote'.versions)
                /\ Len(remote'.versions) >= Len(remote.versions)]_vars

\* C11 witness: an Update with a new list shorter than the list of the state
\* has made its version calls, and the remote template has as many versions
\* as before
C11_Witness ==
    /\ op = "Update"
    /\ pc = "u_read"
    /\ "versions" \in diff
    /\ Len(st.versions) = 2
    /\ Len(cfg.versions) = 1
    /\ Len(VersionCalls) = 1
    /\ Exists(d.id)
    /\ Len(remote.versions) = 2

\* C13: when Create returns success, the resource id is the non-empty id of
\* the created template, and an empty desired versions list gives an empty
\* versions list.
C13_CreateSuccessHasId ==
    (op = "Create" /\ pc = "returned" /\ result.kind = "ok") =>
        /\ d.id # ""
        /\ d.id = createdId
        /\ cfg.versions = <<>> => d.versions = <<>>

\* a version call answered by anything but a 201 with a body that parses
VersionCallFailed(resp) == resp # Status(StatusCreated, TRUE)

\* C14: in the versions loop of Create and of Update, a version call that
\* fails ends the operation in that step with an error for the host: no
\* version call for a later item, no poll and no final read follow it.
C14_VersionCallFailureAborts ==
    [][/\ (pc \in {"c_versions", "u_versions"}
           /\ Len(calls') = Len(calls) + 1
           /\ VersionCallFailed(lastResp')) =>
              /\ pc' = "returned"
              /\ result'.kind = "err"
              /\ pollOutcome' = "none"
       /\ pc = "returned" => (calls' = <<>> /\ pc' = "idle") \/ calls' = calls]_vars

\* C14 witness: the version call for the first of two versions failed in
\* Update, which returned the error after that single version call
C14_Witness ==
    /\ op = "Update"
    /\ pc = "returned"
    /\ result.kind = "err"
    /\ result.err.msg = "failed to update template versions"
    /\ Len(cfg.versions) = 2
    /\ Len(VersionCalls) = 1
    /\ lastResp = TransportFailure

\* C15: in an Update with a changed name, whatever the answer to the rename
\* call, updateTemplateName returns no error and Update goes on to the
\* version calls and the final read.
C15_RenameOutcomeIsSuccess ==
    (op = "Update" /\ RenameCalls # <<>>) =>
        \/ pc \in {"u_versions", "u_read"}
        \/ /\ pc = "returned"
           /\ result.kind \in {"ok", "err"}

\* C16: in the wait of Create, a poll read answered 404 never ends the wait
\* with an error, however many there are before the timeout.
C16_NotFoundPollNeverFailsCreate ==
    ~(op = "Create" /\ pollOutcome = "error"
      /\ lastResp = Status(StatusNotFound, FALSE))

\* C17: when a read (the Read callback, or the last step of Create and
\* Update) has returned success and the id is kept, name and versions of the
\* resource are those of the remote template: the same name, as many
\* versions in the same order, each with the remote id, name, subject,
\* html_content, plain_content and active; no remote version, empty list.
C17_ReadReturnsRemoteState ==
    (op \in {"Create", "Read", "Update"} /\ pc = "returned"
     /\ result.kind = "ok" /\ d.id # "" /\ Exists(d.id)) =>
        /\ d.name = remote.name
        /\ Len(d.versions) = Len(remote.versions)
        /\ \A i \in 1..Len(remote.versions) :
              /\ d.versions[i].id = remote.versions[i].Id
              /\ d.versions[i].name = remote.versions[i].Name
              /\ d.versions[i].subject = remote.versions[i].Subject
              /\ d.versions[i].html_content = remote.versions[i].HtmlContent
              /\ d.versions[i].plain_content = remote.versions[i].PlainContent
              /\ d.versions[i].active = remote.versions[i].Active
        /\ remote.versions = <<>> => d.versions = <<>>

\* C17 witness: the Read callback returned two different versions of the
\* remote template
C17_Witness ==
    /\ op = "Read"
    /\ pc = "returned"
    /\ result.kind = "ok"
    /\ Exists(d.id)
    /\ Len(d.versions) = 2
    /\ d.versions[1].name # d.versions[2].name
    /\ d.name = remote.name

Colons(str) == {i \in 1..Len(str) : str[i] = ":"}
Least(S) == CHOOSE i \in S : \A j \in S : i <= j

\* C12: an identity string with at least two ':' and something before the
\* first and between the first two gives these two parts as id and name and
\* no error; any other string gives an error that names the string, and
\* empty id and name.
C12_ParseTemplateSplitsIdAndName ==
    parsed.called =>
        LET str == parsed.id
            first == Least(Colons(str))
            second == Least(Colons(str) \ {first})
        IN  IF Cardinality(Colons(str)) >= 2 /\ first > 1 /\ second > first + 1
            THEN /\ parsed.ret.err.type = "nil"
                 /\ parsed.ret.realID = SubSeq(str, 1, first - 1)
                 /\ parsed.ret.name = SubSeq(str, first + 1, second - 1)
            ELSE /\ parsed.ret.err.type # "nil"
                 /\ parsed.ret.err.id = str
                 /\ parsed.ret.realID = <<>>
                 /\ parsed.ret.name = <<>>

\* C12 witness: "a:b:a" was parsed to id "a" and name "b"
C12_Witness ==
    /\ parsed.called
    /\ parsed.id = <<"a", ":", "b", ":", "a">>
    /\ parsed.ret.realID = <<"a">>
    /\ parsed.ret.name = <<"b">>
    /\ parsed.ret.err.type = "nil"

====
